---- MODULE Spec2Model ----
(***************************************************************************)
(* permutation-iterator: a keyed Feistel network over [0, 2^width), the    *)
(* Permutor that filters it down to [0, max), and the RandomPairPermutor   *)
(* that decodes a Permutor over max1 * max2 into pairs.                    *)
(***************************************************************************)
EXTENDS Integers, Sequences, FiniteSets, TLC

(***************************************************************************)
(* Bounds of the model.                                                    *)
(***************************************************************************)
\* Largest upper bound handed to a Permutor / FeistelNetwork constructor.
MaxN == 17
\* Largest upper bound when two Permutors run side by side.
MaxN2 == 3
\* new_with_u64_key is called with the seeds 129 * s, s in 0..MaxSeed.
MaxSeed == 1
\* 32-byte keys given by the caller are SliceKey(b), b in 1..MaxSliceKey.
MaxSliceKey == 2
\* next() is called at most MaxNone times with the result None.
MaxNone == 2
\* integer_log2 is applied to 0..MaxLogInput and to 2^k, 2^k - 1 for
\* k in 0..MaxLogShift.
MaxLogInput == 70
MaxLogShift == 28
\* Largest bound of one coordinate handed to RandomPairPermutor::new.
MaxCoord == 4
\* The pair coordinates are u64 in the source.  The model's integers end at
\* 2^31, so the coordinate type of the model has CoordBits bits, and
\* `value as u64` keeps the low CoordBits bits of value.
CoordBits == 3
\* Width of the digest that stands for the 64-bit WyHash digest.
HashBits == 16

(***************************************************************************)
(* Unsigned integer operations of the source, on naturals.                 *)
(***************************************************************************)
Pow2(n) == 2 ^ n

BitAnd(a, b) ==
    LET f[s \in Nat \X Nat] ==
            IF s[1] = 0 \/ s[2] = 0 THEN 0
            ELSE (s[1] % 2) * (s[2] % 2) + 2 * f[<<s[1] \div 2, s[2] \div 2>>]
    IN  f[<<a, b>>]

BitOr(a, b) ==
    LET f[s \in Nat \X Nat] ==
            IF s[1] = 0 THEN s[2]
            ELSE IF s[2] = 0 THEN s[1]
            ELSE (IF s[1] % 2 = 1 \/ s[2] % 2 = 1 THEN 1 ELSE 0)
                 + 2 * f[<<s[1] \div 2, s[2] \div 2>>]
    IN  f[<<a, b>>]

BitXor(a, b) ==
    LET f[s \in Nat \X Nat] ==
            IF s[1] = 0 THEN s[2]
            ELSE IF s[2] = 0 THEN s[1]
            ELSE (((s[1] % 2) + (s[2] % 2)) % 2)
                 + 2 * f[<<s[1] \div 2, s[2] \div 2>>]
    IN  f[<<a, b>>]

Shl(a, n) == a * Pow2(n)

Shr(a, n) == a \div Pow2(n)

\* `value as u64` in RandomPairPermutor::next, on the CoordBits-bit
\* coordinate type.
AsCoord(x) == x % Pow2(CoordBits)

\* Option<T>
None == <<>>

Some(v) == <<v>>

(***************************************************************************)
(* integer_log2                                                            *)
(***************************************************************************)
\* The loop with the condition `input_copy > _1`: the floor of log2.
integer_log2_loop_floor(input_copy, result) ==
    LET loop[s \in Nat \X Nat] ==
            IF s[1] > 1 THEN loop[<<Shr(s[1], 1), s[2] + 1>>] ELSE s[2]
    IN  loop[<<input_copy, result>>]

\* `while input_copy > _0 { input_copy >>= 1; result += 1 }`
integer_log2_loop(input_copy, result) ==
    LET loop[s \in Nat \X Nat] ==
            IF s[1] > 0 THEN loop[<<Shr(s[1], 1), s[2] + 1>>] ELSE s[2]
    IN  loop[<<input_copy, result>>]

integer_log2(input) ==
    IF input = 0 THEN None ELSE Some(integer_log2_loop(input, 0))

(***************************************************************************)
(* Byte helpers                                                            *)
(***************************************************************************)
u8_to_1slice(input) == <<input>>

\* ((input & (0xFF << shift)) >> shift) as u8.  The model's integers are
\* below 2^31, so the bytes at shifts of 32 and more are zero.
ByteAt(input, shift) ==
    IF shift >= 32 THEN 0 ELSE (input \div Pow2(shift)) % 256

u64_to_8slice(input) == [k \in 1..8 |-> ByteAt(input, 8 * (8 - k))]

u64_to_32slice(input) ==
    LET result8 == u64_to_8slice(input)
    IN  [k \in 1..32 |-> IF k <= 8 THEN result8[k] ELSE 0]

(***************************************************************************)
(* The keyed hash.  WyHash is an external crate; the model uses a          *)
(* deterministic byte-fold of HashBits bits in its place.                  *)
(***************************************************************************)
HashByte(h, b) == ((h + b + 1) * 37 + (h \div 16)) % Pow2(HashBits)

\* hasher.write(bytes) on a hasher in state h.
HashWrite(h, bytes) ==
    LET loop[s \in Nat \X Nat] ==
            IF s[1] <= Len(bytes)
            THEN loop[<<s[1] + 1, HashByte(s[2], bytes[s[1]])>>]
            ELSE s[2]
    IN  loop[<<1, h>>]

\* WyHash::default(), the four writes of round_function, finish().
WyHash(key, right_bytes, round_bytes) ==
    LET h1 == HashWrite(0, key)
        h2 == HashWrite(h1, right_bytes)
        h3 == HashWrite(h2, round_bytes)
    IN  HashWrite(h3, key)

(***************************************************************************)
(* FeistelNetwork                                                          *)
(***************************************************************************)
rounds == 32

\* `for i in 0..half_width { right_mask |= 1 << i; }`
right_mask_loop(right_mask, i, half_width) ==
    LET loop[s \in Nat \X Nat] ==
            IF s[2] < half_width
            THEN loop[<<BitOr(s[1], Shl(1, s[2])), s[2] + 1>>]
            ELSE s[1]
    IN  loop[<<right_mask, i>>]

\* `if width % 2 != 0 { width += 1; }`
even_width(bits) == IF bits % 2 # 0 THEN bits + 1 ELSE bits

\* An unwrap that reads None as 0 instead of panicking.
unwrap_none_as_zero(log) ==
    [ok |-> TRUE, value |-> IF log = None THEN 0 ELSE log[1]]

\* Option::unwrap: [ok |-> FALSE] is the panic on None.
unwrap(log) ==
    IF log = None THEN [ok |-> FALSE] ELSE [ok |-> TRUE, value |-> log[1]]

\* [ok |-> FALSE] is the panic of unwrap(); otherwise the new network.
FeistelNetwork_new_with_slice_key(max_value, key) ==
    LET log == unwrap(integer_log2(max_value))
    IN  IF ~log.ok THEN [ok |-> FALSE]
        ELSE LET width      == even_width(log.value)
                 half_width == width \div 2
                 right_mask == right_mask_loop(0, 0, half_width)
                 left_mask  == Shl(right_mask, half_width)
             IN  [ok |-> TRUE,
                  value |-> [half_width |-> half_width,
                             right_mask |-> right_mask,
                             left_mask  |-> left_mask,
                             key        |-> key,
                             rounds     |-> rounds]]

round_function(right, round, key, mask) ==
    \* `right as u64` keeps the low 64 bits, the ones u64_to_8slice reads.
    LET right_bytes == u64_to_8slice(right)
        round_bytes == u8_to_1slice(round)
    IN  BitAnd(WyHash(key, right_bytes, round_bytes), mask)

\* A round that keeps the left half in place instead of swapping.
feistel_round_no_swap(self, left, right, i) ==
    <<left, BitXor(left, round_function(right, i, self.key, self.right_mask))>>

\* One round of permute: <<left, right>> after round i.
feistel_round(self, left, right, i) ==
    <<right, BitXor(left, round_function(right, i, self.key, self.right_mask))>>

\* `for i in 0..self.rounds`: <<left, right>> after all the rounds.
feistel_rounds(self, left, right) ==
    LET loop[s \in Nat \X (Nat \X Nat)] ==
            IF s[1] < self.rounds
            THEN loop[<<s[1] + 1, feistel_round(self, s[2][1], s[2][2], s[1])>>]
            ELSE s[2]
    IN  loop[<<0, <<left, right>>>>]

permute(self, input) ==
    LET left   == Shr(BitAnd(input, self.left_mask), self.half_width)
        right  == BitAnd(input, self.right_mask)
        lr     == feistel_rounds(self, left, right)
        result == BitOr(Shl(lr[1], self.half_width), lr[2])
    IN  BitAnd(result, BitOr(self.left_mask, self.right_mask))

\* 2^width, the size of the network's domain.
DomainSize(self) == Pow2(2 * self.half_width)

(***************************************************************************)
(* Keys, and the permutations of the networks the model can build.         *)
(***************************************************************************)
Seeds == {129 * s : s \in 0..MaxSeed}

SliceKey(b) == [k \in 1..32 |-> (k * b + 7 * b) % 256]

SliceKeys == {SliceKey(b) : b \in 1..MaxSliceKey}

\* The keys thread_rng() can return (a bounded choice among the 2^256).
Keys == {u64_to_32slice(s) : s \in Seeds} \cup SliceKeys

MaxBound ==
    LET m == IF MaxN >= MaxN2 THEN MaxN ELSE MaxN2
    IN  IF m >= MaxCoord * MaxCoord THEN m ELSE MaxCoord * MaxCoord

Networks ==
    {FeistelNetwork_new_with_slice_key(n, k).value : n \in 1..MaxBound, k \in Keys}

\* permute, evaluated once for every network and every input of its domain.
PermuteTable ==
    [fe \in Networks |-> [v \in 0..(DomainSize(fe) - 1) |-> permute(fe, v)]]

\* self.feistel.permute(input), read from PermuteTable where it is there.
feistel_permute(self, input) ==
    IF self \in Networks /\ input < DomainSize(self)
    THEN PermuteTable[self][input]
    ELSE permute(self, input)

(***************************************************************************)
(* Permutor::next                                                          *)
(***************************************************************************)
\* The filter with `>` in place of `>=`.
rejected_gt(next, max_value) == next > max_value

\* `if next >= self.max { continue; }`
rejected(next, max_value) == next >= max_value

\* An exhausted iterator that starts over on the next call.
next_exhausted_restart(cur, vr) ==
    [current |-> 0, values_returned |-> 0, ret |-> None]

\* The loop is left with values_returned = max: None, nothing changed.
next_exhausted(cur, vr) ==
    [current |-> cur, values_returned |-> vr, ret |-> None]

\* The fields and the result after one call of next().
RECURSIVE Permutor_next_loop(_, _, _, _)
Permutor_next_loop(fe, max_value, cur, vr) ==
    IF vr < max_value
    THEN LET next == feistel_permute(fe, cur)
         IN  IF rejected(next, max_value)
             THEN Permutor_next_loop(fe, max_value, cur + 1, vr)
             ELSE [current |-> cur + 1, values_returned |-> vr + 1,
                   ret |-> Some(next)]
    ELSE next_exhausted(cur, vr)

(***************************************************************************)
(* State                                                                   *)
(***************************************************************************)
\* The Permutor instances of a run.
Insts == 1..2

VARIABLES
    status,           \* [Insts -> "none" | "ready" | "panicked"]
    ctor,             \* [Insts -> the constructor call: name, max, key]
    feistel,          \* Permutor.feistel
    max,              \* Permutor.max
    current,          \* Permutor.current
    values_returned,  \* Permutor.values_returned
    out,              \* [Insts -> the results of the next() calls so far]
    network_status,   \* a FeistelNetwork used on its own
    network_max,      \* the max it was constructed with
    network,          \* its fields
    permute_in,       \* the input of its last permute call, or None
    permute_out,      \* the output of that call, or None
    pair_status,      \* the RandomPairPermutor (its permutor is instance 1)
    pair_args,        \* <<max1, max2>> of RandomPairPermutor::new
    max2,             \* RandomPairPermutor.max2
    pair_out,         \* the results of its next() calls so far
    log_called,       \* integer_log2 has been applied to log_input
    log_input,
    log_result

permutor_vars == <<status, ctor, feistel, max, current, values_returned, out>>

network_vars == <<network_status, network_max, network, permute_in, permute_out>>

pair_vars == <<pair_status, pair_args, max2, pair_out>>

log_vars == <<log_called, log_input, log_result>>

vars == <<permutor_vars, network_vars, pair_vars, log_vars>>

ZeroKey == [k \in 1..32 |-> 0]

NoFeistel ==
    [half_width |-> 0, right_mask |-> 0, left_mask |-> 0, key |-> ZeroKey,
     rounds |-> 0]

NoCtor == [name |-> "none", max |-> 0, key |-> None]

InitObjects ==
    /\ status = [i \in Insts |-> "none"]
    /\ ctor = [i \in Insts |-> NoCtor]
    /\ feistel = [i \in Insts |-> NoFeistel]
    /\ max = [i \in Insts |-> 0]
    /\ current = [i \in Insts |-> 0]
    /\ values_returned = [i \in Insts |-> 0]
    /\ out = [i \in Insts |-> <<>>]
    /\ network_status = "none"
    /\ network_max = 0
    /\ network = NoFeistel
    /\ permute_in = None
    /\ permute_out = None
    /\ pair_status = "none"
    /\ pair_args = <<0, 0>>
    /\ max2 = 0
    /\ pair_out = <<>>
    /\ log_called = FALSE
    /\ log_result = None

Init == InitObjects /\ log_input = 0

\* The number of None results in a sequence of results.
NoneCount(results) == Cardinality({k \in DOMAIN results : results[k] = None})

(***************************************************************************)
(* Permutor                                                                *)
(***************************************************************************)
\* FeistelNetwork::new: `key` is what thread_rng() returned.
FeistelNetwork_new(max_value, key) ==
    FeistelNetwork_new_with_slice_key(max_value, key)

\* The network of Permutor::new_with_slice_key(max, key); `drawn` is what
\* thread_rng() would return, which this constructor does not ask for.
slice_key_feistel_random(max_value, key, drawn) ==
    FeistelNetwork_new(max_value, drawn)

slice_key_feistel(max_value, key, drawn) ==
    FeistelNetwork_new_with_slice_key(max_value, key)

\* `current: 0, values_returned: 0` of the three constructors.
fresh_counters_from_one == [current |-> 1, values_returned |-> 0]

fresh_counters == [current |-> 0, values_returned |-> 0]

\* The struct expression of a constructor: f is the result of building the
\* network, which panics before the Permutor exists when f.ok is false.
Construct(i, name, max_value, key, f) ==
    /\ status[i] = "none"
    /\ network_status = "none"
    /\ pair_status = "none"
    /\ ctor' = [ctor EXCEPT ![i] = [name |-> name, max |-> max_value, key |-> key]]
    /\ IF f.ok
       THEN /\ status' = [status EXCEPT ![i] = "ready"]
            /\ feistel' = [feistel EXCEPT ![i] = f.value]
            /\ max' = [max EXCEPT ![i] = max_value]
            /\ current' = [current EXCEPT ![i] = fresh_counters.current]
            /\ values_returned' =
                   [values_returned EXCEPT ![i] = fresh_counters.values_returned]
       ELSE /\ status' = [status EXCEPT ![i] = "panicked"]
            /\ UNCHANGED <<feistel, max, current, values_returned>>
    /\ UNCHANGED out

Permutor_new_with_u64_key(i, max_value, seed) ==
    /\ Construct(i, "new_with_u64_key", max_value, Some(seed),
                 FeistelNetwork_new_with_slice_key(max_value, u64_to_32slice(seed)))
    /\ UNCHANGED <<network_vars, pair_vars, log_vars>>

Permutor_new_with_slice_key(i, max_value, key, drawn) ==
    /\ Construct(i, "new_with_slice_key", max_value, Some(key),
                 slice_key_feistel(max_value, key, drawn))
    /\ UNCHANGED <<network_vars, pair_vars, log_vars>>

Permutor_new(i, max_value, drawn) ==
    /\ Construct(i, "new", max_value, None, FeistelNetwork_new(max_value, drawn))
    /\ UNCHANGED <<network_vars, pair_vars, log_vars>>

\* One call of next() on instance i, with its effect on the fields.
StepPermutor(i, r) ==
    /\ current' = [current EXCEPT ![i] = r.current]
    /\ values_returned' = [values_returned EXCEPT ![i] = r.values_returned]
    /\ out' = [out EXCEPT ![i] = Append(@, r.ret)]
    /\ UNCHANGED <<status, ctor, feistel, max>>

Permutor_next(i) ==
    /\ status[i] = "ready"
    /\ pair_status = "none"
    /\ NoneCount(out[i]) < MaxNone
    /\ StepPermutor(i, Permutor_next_loop(feistel[i], max[i], current[i],
                                          values_returned[i]))
    /\ UNCHANGED <<network_vars, pair_vars, log_vars>>

(***************************************************************************)
(* A FeistelNetwork used directly                                          *)
(***************************************************************************)
BuildNetwork(max_value, f) ==
    /\ network_status = "none"
    /\ pair_status = "none"
    /\ \A i \in Insts : status[i] = "none"
    /\ network_max' = max_value
    /\ IF f.ok
       THEN network_status' = "ready" /\ network' = f.value
       ELSE network_status' = "panicked" /\ UNCHANGED network
    /\ UNCHANGED <<permute_in, permute_out, permutor_vars, pair_vars, log_vars>>

Network_new(max_value, drawn) ==
    BuildNetwork(max_value, FeistelNetwork_new(max_value, drawn))

Network_new_with_slice_key(max_value, key) ==
    BuildNetwork(max_value, FeistelNetwork_new_with_slice_key(max_value, key))

Network_permute(input) ==
    /\ network_status = "ready"
    /\ input < DomainSize(network)
    /\ permute_in' = Some(input)
    /\ permute_out' = Some(feistel_permute(network, input))
    /\ UNCHANGED <<network_status, network_max, network, permutor_vars,
                   pair_vars, log_vars>>

(***************************************************************************)
(* RandomPairPermutor                                                      *)
(***************************************************************************)
\* The coordinate bounds a caller can pass in the coordinate type.
Coords == {c \in 0..MaxCoord : c < Pow2(CoordBits)}

RandomPairPermutor_new(max1, max_2, drawn) ==
    LET max_value == max1 * max_2
        f == FeistelNetwork_new(max_value, drawn)
    IN  /\ pair_status = "none"
        /\ Construct(1, "new", max_value, None, f)
        /\ pair_args' = <<max1, max_2>>
        /\ IF f.ok
           THEN pair_status' = "ready" /\ max2' = max_2
           ELSE pair_status' = "panicked" /\ UNCHANGED max2
        /\ UNCHANGED <<pair_out, network_vars, log_vars>>

\* The `match self.permutor.next()` of RandomPairPermutor::next.
pair_of(ret, max_2) ==
    IF ret = None THEN None
    ELSE LET first  == AsCoord(ret[1]) \div max_2
             second == AsCoord(ret[1]) % max_2
         IN  Some(<<first, second>>)

RandomPairPermutor_next ==
    LET r == Permutor_next_loop(feistel[1], max[1], current[1], values_returned[1])
    IN  /\ pair_status = "ready"
        /\ NoneCount(pair_out) < MaxNone
        /\ StepPermutor(1, r)
        /\ pair_out' = Append(pair_out, pair_of(r.ret, max2))
        /\ UNCHANGED <<pair_status, pair_args, max2, network_vars, log_vars>>

(***************************************************************************)
(* integer_log2 applied to an input                                        *)
(***************************************************************************)
LogInputs ==
    (0..MaxLogInput) \cup {Pow2(k) : k \in 0..MaxLogShift}
                     \cup {Pow2(k) - 1 : k \in 0..MaxLogShift}

Call_integer_log2 ==
    /\ ~log_called
    /\ log_called' = TRUE
    /\ log_result' = integer_log2(log_input)
    /\ UNCHANGED <<log_input, permutor_vars, network_vars, pair_vars>>

(***************************************************************************)
(* Specifications                                                          *)
(***************************************************************************)
\* One Permutor, or one FeistelNetwork used directly.
Next ==
    \/ \E n \in 0..MaxN, seed \in Seeds : Permutor_new_with_u64_key(1, n, seed)
    \/ \E n \in 0..MaxN, key \in SliceKeys, drawn \in Keys :
           Permutor_new_with_slice_key(1, n, key, drawn)
    \/ \E n \in 0..MaxN, drawn \in Keys : Permutor_new(1, n, drawn)
    \/ Permutor_next(1)
    \/ \E n \in 0..MaxN, drawn \in Keys : Network_new(n, drawn)
    \/ \E n \in 0..MaxN, key \in SliceKeys : Network_new_with_slice_key(n, key)
    \/ \E input \in 0..(Pow2(2 * network.half_width) - 1) : Network_permute(input)

Spec == Init /\ [][Next]_vars

\* One FeistelNetwork used directly.
NextNetwork ==
    \/ \E n \in 0..MaxN, drawn \in Keys : Network_new(n, drawn)
    \/ \E n \in 0..MaxN, key \in SliceKeys : Network_new_with_slice_key(n, key)
    \/ \E input \in 0..(Pow2(2 * network.half_width) - 1) : Network_permute(input)

SpecNetwork == Init /\ [][NextNetwork]_vars

\* Two Permutors built with explicit keys and stepped in any order.
NextTwo ==
    \/ \E i \in Insts, n \in 0..MaxN2, seed \in Seeds :
           Permutor_new_with_u64_key(i, n, seed)
    \/ \E i \in Insts, n \in 0..MaxN2, key \in SliceKeys, drawn \in Keys :
           Permutor_new_with_slice_key(i, n, key, drawn)
    \/ \E i \in Insts : Permutor_next(i)

SpecTwo == Init /\ [][NextTwo]_vars

\* One RandomPairPermutor.
NextPair ==
    \/ \E max1 \in Coords, max_2 \in Coords, drawn \in Keys :
           RandomPairPermutor_new(max1, max_2, drawn)
    \/ RandomPairPermutor_next

SpecPair == Init /\ [][NextPair]_vars

\* integer_log2 on every input of LogInputs.
InitLog2 == InitObjects /\ log_input \in LogInputs

NextLog2 == Call_integer_log2

SpecLog2 == InitLog2 /\ [][NextLog2]_vars

(***************************************************************************)
(* Properties                                                              *)
(***************************************************************************)
\* The indices of the results that are Some(_).
SomeAt(results) == {k \in DOMAIN results : results[k] # None}

\* The next call of next() on instance i would return None.
ExhaustedNow(i) ==
    Permutor_next_loop(feistel[i], max[i], current[i], values_returned[i]).ret = None

\* C1: the values next() returns are in [0, max) and pairwise distinct, and
\* when next() first returns None it has returned exactly max values, whose
\* set is {0, ..., max-1}.
C1_BoundedCoverage ==
    status[1] = "ready" =>
        LET o == out[1]
        IN  /\ \A k \in SomeAt(o) : o[k][1] >= 0 /\ o[k][1] < max[1]
            /\ \A j, k \in SomeAt(o) : j # k => o[j][1] # o[k][1]
            /\ NoneCount(o) > 0 =>
                   /\ \A k \in DOMAIN o : (o[k] = None) <=> (k > max[1])
                   /\ {o[k][1] : k \in 1..max[1]} = 0..(max[1] - 1)

C1_Witness ==
    /\ status[1] = "ready"
    /\ max[1] = 10
    /\ Len(out[1]) = 11
    /\ out[1][11] = None

\* C2: permute maps [0, 2^width) into itself, no two inputs of the domain
\* have the same output, and every element of the domain is an output.
C2_Bijection ==
    network_status = "ready" =>
        LET D == 0..(DomainSize(network) - 1)
        IN  /\ \A v \in D : feistel_permute(network, v) \in D
            /\ \A v, w \in D :
                   feistel_permute(network, v) = feistel_permute(network, w) => v = w
            /\ \A w \in D : \E v \in D : feistel_permute(network, v) = w
            /\ permute_out # None => permute_out[1] \in D

C2_Witness ==
    /\ network_status = "ready"
    /\ network.half_width = 3
    /\ permute_in = Some(63)
    /\ permute_out # None

\* C3: a RandomPairPermutor built with max1, max2 > 0 returns pairs (i, j) with
\* i < max1 and j < max2, each (v div max2, v mod max2) of the value v of its
\* Permutor, none twice, and max1 * max2 of them covering the cross product
\* when it first returns None.
C3_PairCoverage ==
    (pair_status = "ready" /\ pair_args[1] > 0 /\ pair_args[2] > 0) =>
        LET o == pair_out
            m1 == pair_args[1]
            m2 == pair_args[2]
        IN  /\ \A k \in SomeAt(o) :
                   /\ o[k][1][1] < m1 /\ o[k][1][2] < m2
                   /\ o[k][1] = <<out[1][k][1] \div m2, out[1][k][1] % m2>>
            /\ \A j, k \in SomeAt(o) : j # k => o[j][1] # o[k][1]
            /\ NoneCount(o) > 0 =>
                   /\ \A k \in DOMAIN o : (o[k] = None) <=> (k > m1 * m2)
                   /\ {o[k][1] : k \in 1..(m1 * m2)} = (0..(m1 - 1)) \X (0..(m2 - 1))

\* C4: no constructor of Permutor or FeistelNetwork returns an instance for
\* an upper bound of 0: the call panics, and next() never runs.
C4_ZeroBoundFailsFast ==
    /\ \A i \in Insts :
           /\ status[i] = "ready" => ctor[i].max > 0 /\ max[i] > 0
           /\ (ctor[i].name # "none" /\ ctor[i].max = 0) =>
                  status[i] = "panicked" /\ out[i] = <<>>
    /\ network_status = "ready" => network_max > 0
    /\ (network_status # "none" /\ network_max = 0) =>
           network_status = "panicked" /\ permute_out = None

C4_Witness ==
    /\ status[1] = "panicked"
    /\ ctor[1].name = "new_with_slice_key"
    /\ ctor[1].max = 0

\* C5: two Permutors built by the same constructor with the same max and the
\* same explicit key agree on every result both have returned so far.
C5_SameKeySameSequence ==
    \A i, j \in Insts :
        (/\ status[i] = "ready" /\ status[j] = "ready"
         /\ ctor[i].name # "new"
         /\ ctor[i].name = ctor[j].name
         /\ ctor[i].max = ctor[j].max
         /\ ctor[i].key = ctor[j].key) =>
            \A k \in 1..Len(out[i]) : k <= Len(out[j]) => out[i][k] = out[j][k]

C5_Witness ==
    /\ status[1] = "ready" /\ status[2] = "ready"
    /\ ctor[1].name = "new_with_slice_key"
    /\ ctor[2].name = "new_with_slice_key"
    /\ ctor[1].key = ctor[2].key
    /\ max[1] = 3 /\ max[2] = 3
    /\ Len(out[1]) = 4 /\ Len(out[2]) = 4

\* C6: once next() has returned None, a further call returns None again and
\* leaves current, values_returned, max and the network as they were.
C6_NoneStaysNone ==
    [][(status[1] = "ready" /\ out[1] # <<>> /\ out[1][Len(out[1])] = None) =>
          /\ out'[1] = out[1] \/ out'[1] = Append(out[1], None)
          /\ current'[1] = current[1]
          /\ values_returned'[1] = values_returned[1]
          /\ max'[1] = max[1]
          /\ feistel'[1] = feistel[1]]_vars

C6_Witness ==
    /\ status[1] = "ready"
    /\ max[1] = 5
    /\ Len(out[1]) = 7
    /\ out[1][6] = None /\ out[1][7] = None

\* C7 as stated: values_returned = max exactly when the iterator is
\* exhausted, and then current = 2^width.
C7_CursorAtEndWhenExhausted ==
    status[1] = "ready" =>
        /\ (values_returned[1] = max[1]) <=> ExhaustedNow(1)
        /\ values_returned[1] = max[1] => current[1] = DomainSize(feistel[1])

\* C7 amended: values_returned = max exactly when the iterator is exhausted,
\* and then max <= current <= 2^width and no index from current on has an
\* output below max.
C7_ExhaustedCursor ==
    status[1] = "ready" =>
        /\ (values_returned[1] = max[1]) <=> ExhaustedNow(1)
        /\ values_returned[1] = max[1] =>
               /\ max[1] <= current[1]
               /\ current[1] <= DomainSize(feistel[1])
               /\ \A v \in current[1]..(DomainSize(feistel[1]) - 1) :
                      feistel_permute(feistel[1], v) >= max[1]

C7_Witness ==
    /\ status[1] = "ready"
    /\ max[1] = 10
    /\ values_returned[1] = 10
    /\ current[1] < DomainSize(feistel[1])
    /\ NoneCount(out[1]) > 0

\* C8: 2 * half_width is the smallest even width whose 2^width is at least
\* the upper bound the network was constructed with.
C8_SmallestEvenWidth ==
    network_status = "ready" =>
        LET width == 2 * network.half_width
        IN  /\ Pow2(width) >= network_max
            /\ \A e \in 0..(width - 1) : e % 2 = 0 => Pow2(e) < network_max

\* C9: integer_log2(0) is None, and integer_log2(n) for n > 0 is Some(r) with
\* r >= 1 and 2^(r-1) <= n < 2^r.
C9_BitLength ==
    log_called =>
        IF log_input = 0 THEN log_result = None
        ELSE /\ log_result # None
             /\ log_result[1] >= 1
             /\ Pow2(log_result[1] - 1) <= log_input
             /\ log_input < Pow2(log_result[1])

C9_Witness ==
    /\ log_called
    /\ log_input = 8
    /\ log_result = Some(4)

\* C10: after every step current <= 2^width and values_returned <= max, and
\* the inputs a call of next() hands to permute, current to current' - 1, are
\* all below 2^width, so the call makes at most 2^width - current of them.
C10_CursorInDomain ==
    [][status'[1] = "ready" =>
          /\ current'[1] <= DomainSize(feistel'[1])
          /\ values_returned'[1] <= max'[1]
          /\ status[1] = "ready" =>
                 /\ \A v \in current[1]..(current'[1] - 1) :
                        v >= 0 /\ v < DomainSize(feistel[1])
                 /\ current'[1] - current[1] <= DomainSize(feistel[1]) - current[1]]_vars

C10_Witness ==
    /\ status[1] = "ready"
    /\ max[1] = 10
    /\ current[1] = DomainSize(feistel[1])
    /\ values_returned[1] = 10

====
